---- MODULE Spec2Model ----
(***************************************************************************)
(* Model of the asset bundler of src/assets.go: compile (combine the       *)
(* sources, delete the stale outputs, write the fingerprinted file),       *)
(* findFile (glob lookup) and the tag / inline renderers.                  *)
(*                                                                         *)
(* Strings are sequences of one-character strings, so that glob matching,  *)
(* prefixes and suffixes are computed on the characters as the code does.  *)
(* The output directory is the set of its entries [name, data].            *)
(***************************************************************************)
EXTENDS Integers, Sequences, FiniteSets, TLC

VARIABLES dir, call, ncalls, procs, pure

vars == <<dir, call, ncalls, procs, pure>>

(***************************************************************************)
(* Bounds of the model.                                                    *)
(***************************************************************************)
\* source files per compile call
MaxFiles == 2
\* compile calls in one sequential run
MaxCompiles == 1
\* source files per list and bytes per file for the pure-function specification
PureMaxFiles == 2
PureMaxLen == 1

(***************************************************************************)
(* Characters and strings.                                                 *)
(***************************************************************************)
NL == "\n"

\* the byte values source files are made of
Bytes == {NL, "x"}

\* the characters of the model in ASCII order
AsciiOrder ==
    << NL, "-", ".", "/",
       "0", "1", "2", "3", "4", "5", "6", "7", "8", "9", "_",
       "a", "b", "c", "d", "e", "f", "g", "i", "j", "m", "n", "p", "s", "x" >>

Ord(c) == CHOOSE i \in 1..Len(AsciiOrder) : AsciiOrder[i] = c

\* byte-wise lexicographic order, the order of sort.Strings
StrLess(a, b) ==
    LET n == IF Len(a) < Len(b) THEN Len(a) ELSE Len(b)
    IN  IF \A i \in 1..n : a[i] = b[i] THEN Len(a) < Len(b)
        ELSE LET k == CHOOSE i \in 1..n : a[i] # b[i] /\ \A j \in 1..(i - 1) : a[j] = b[j]
             IN  Ord(a[k]) < Ord(b[k])

HasPrefix(s, p) == Len(s) >= Len(p) /\ SubSeq(s, 1, Len(p)) = p

HasSuffix(s, suffix) ==
    Len(s) >= Len(suffix) /\ SubSeq(s, Len(s) - Len(suffix) + 1, Len(s)) = suffix

SeqsUpTo(S, n) == UNION {[1..k -> S] : k \in 0..n}

(***************************************************************************)
(* Program constants.                                                      *)
(***************************************************************************)
cssTagTemplate == << <<"<link href=\"">>, <<"\" rel=\"stylesheet\" type=\"text/css\" />">> >>
jsTagTemplate == << <<"<script src=\"">>, <<"\" type=\"text/javascript\" ></script>">> >>
cssInlineTemplate == << <<"<style>">>, <<"</style>">> >>
jsInlineTemplate == << <<"<script>">>, <<"</script>">> >>

\* fmt.Sprintf(tmplt, arg) for a template with one %s
Sprintf(tmplt, arg) == tmplt[1] \o arg \o tmplt[2]

MinCss == <<".", "m", "i", "n", ".", "c", "s", "s">>
MinJs == <<".", "m", "i", "n", ".", "j", "s">>
Png == <<".", "p", "n", "g">>

\* an MD5 digest in hex: 16 bytes, two characters each
HashHexLen == 32

HexChars == <<"0", "1", "2", "3", "4", "5", "6", "7", "8", "9", "a", "b", "c", "d", "e", "f">>

(***************************************************************************)
(* hash: the digest is taken collision-free, which is what the naming      *)
(* scheme relies on: the buffer is numbered injectively (bijective base-3  *)
(* numeration of its bytes) and the number written as HashHexLen lowercase *)
(* hex digits.                                                             *)
(***************************************************************************)
ByteCode(c) == IF c = NL THEN 1 ELSE 2

RECURSIVE Digest(_)
Digest(bytes) ==
    IF bytes = <<>> THEN 0
    ELSE Digest(SubSeq(bytes, 1, Len(bytes) - 1)) * (Cardinality(Bytes) + 1)
             + ByteCode(bytes[Len(bytes)])

RECURSIVE EncodeToString(_, _)
EncodeToString(n, w) ==
    IF w = 0 THEN <<>>
    ELSE EncodeToString(n \div 16, w - 1) \o <<HexChars[(n % 16) + 1]>>

hash(bytes) == EncodeToString(Digest(bytes), HashHexLen)

(***************************************************************************)
(* combine: a source is [ok, data]; ok = FALSE is a path ioutil.ReadFile   *)
(* fails on.  The result is [err, at, buf]: at is the index of the path    *)
(* whose read failed (0 when none did).                                    *)
(***************************************************************************)
RECURSIVE combineFrom(_, _, _)
combineFrom(writer, paths, i) ==
    IF i > Len(paths) THEN [err |-> FALSE, at |-> 0, buf |-> writer]
    ELSE IF ~paths[i].ok THEN [err |-> TRUE, at |-> i, buf |-> writer]
    ELSE combineFrom(writer \o paths[i].data \o <<NL, NL>>, paths, i + 1)

\* a combine that writes the separator only between two files
RECURSIVE joinFrom(_, _, _)
joinFrom(writer, paths, i) ==
    IF i > Len(paths) THEN [err |-> FALSE, at |-> 0, buf |-> writer]
    ELSE IF ~paths[i].ok THEN [err |-> TRUE, at |-> i, buf |-> writer]
    ELSE joinFrom(writer \o (IF i > 1 THEN <<NL, NL>> ELSE <<>>) \o paths[i].data,
                  paths, i + 1)

combineJoined(paths) == joinFrom(<<>>, paths, 1)

combine(paths) == combineFrom(<<>>, paths, 1)

filePrefix(compiledName) == <<"_", "_">> \o compiledName \o <<"-">>

(***************************************************************************)
(* filepath.Join, filepath.Match and filepath.Glob on the paths the model  *)
(* uses (no ".", "..", doubled separators, character classes or escapes).  *)
(***************************************************************************)
Join(a, b) ==
    IF a = <<>> THEN b
    ELSE IF a[Len(a)] = "/" THEN a \o b
    ELSE a \o <<"/">> \o b

\* index of the last separator of p, 0 when there is none
LastSep(p) ==
    IF \E i \in 1..Len(p) : p[i] = "/"
    THEN CHOOSE i \in 1..Len(p) : p[i] = "/" /\ \A j \in (i + 1)..Len(p) : p[j] # "/"
    ELSE 0

DirOf(p) == SubSeq(p, 1, LastSep(p) - 1)
BaseOf(p) == SubSeq(p, LastSep(p) + 1, Len(p))

\* a pattern chunk without "*" against a name of the same length
MatchChunk(chunk, name) ==
    /\ Len(chunk) = Len(name)
    /\ \A i \in 1..Len(chunk) :
          \/ chunk[i] = name[i]
          \/ chunk[i] = "?" /\ name[i] # "/"

NoStar(pattern) == \A i \in 1..Len(pattern) : pattern[i] # "*"

NoSeparator(name, from, to) == \A j \in from..to : name[j] # "/"

\* "*" matches any run of non-separator characters; the chunk after the last
\* "*" can only match the end of the name
RECURSIVE Match(_, _)
Match(pattern, name) ==
    IF NoStar(pattern) THEN MatchChunk(pattern, name)
    ELSE LET star == CHOOSE i \in 1..Len(pattern) :
                         pattern[i] = "*" /\ \A j \in 1..(i - 1) : pattern[j] # "*"
             rest == SubSeq(pattern, star + 1, Len(pattern))
         IN  /\ Len(name) >= star - 1
             /\ MatchChunk(SubSeq(pattern, 1, star - 1), SubSeq(name, 1, star - 1))
             /\ IF NoStar(rest)
                THEN /\ Len(name) - Len(rest) >= star - 1
                     /\ MatchChunk(rest, SubSeq(name, Len(name) - Len(rest) + 1, Len(name)))
                     /\ NoSeparator(name, star, Len(name) - Len(rest))
                ELSE \E k \in (star - 1)..Len(name) :
                        /\ Match(rest, SubSeq(name, k + 1, Len(name)))
                        /\ NoSeparator(name, star, k)

\* the directory the model keeps the entries of
outDir == <<"p">>

\* the paths of the entries of d that match the pattern, sorted
Glob(d, pattern) ==
    IF DirOf(pattern) # outDir THEN <<>>
    ELSE LET names == {f.name : f \in {g \in d : Match(BaseOf(pattern), g.name)}}
             paths == {Join(outDir, n) : n \in names}
             anyOrder == CHOOSE s \in [1..Cardinality(paths) -> paths] :
                             \A p \in paths : \E k \in 1..Cardinality(paths) : s[k] = p
         IN  SortSeq(anyOrder, StrLess)

\* error values
ErrNone == "none"
ErrRead == "read"
ErrRemove == "remove"
ErrWrite == "write"
ErrNoFile == "No files found"
ErrMany == "More than one file found"
ErrNoTemplate == "No template for ext"

\* a findFile that takes the first candidate when several files match
findFileFirstOfMany(d, path, compiledName, ext, abs) ==
    LET glob == Join(path, filePrefix(compiledName) \o <<"*">> \o ext)
        files == Glob(d, glob)
    IN  IF Len(files) < 1 THEN [path |-> <<>>, err |-> ErrNoFile]
        ELSE IF abs THEN [path |-> Join(<<"/">>, files[1]), err |-> ErrNone]
        ELSE [path |-> files[1], err |-> ErrNone]

findFile(d, path, compiledName, ext, abs) ==
    LET glob == Join(path, filePrefix(compiledName) \o <<"*">> \o ext)
        files == Glob(d, glob)
    IN  IF Len(files) > 1 THEN [path |-> <<>>, err |-> ErrMany]
        ELSE IF Len(files) < 1 THEN [path |-> <<>>, err |-> ErrNoFile]
        ELSE IF abs THEN [path |-> Join(<<"/">>, files[1]), err |-> ErrNone]
        ELSE [path |-> files[1], err |-> ErrNone]

\* os.Remove of one path of the output directory
Remove(d, f) == {g \in d : Join(outDir, g.name) # f}

Exists(d, f) == \E g \in d : Join(outDir, g.name) = f

(***************************************************************************)
(* removeGlob: failAt is the environment's input, the index of the listed  *)
(* file whose os.Remove fails (0: none fails).  The files listed before it *)
(* are removed, the loop stops at the failure.                             *)
(***************************************************************************)
RECURSIVE removeFrom(_, _, _, _)
removeFrom(d, files, i, failAt) ==
    IF i > Len(files) THEN [dir |-> d, err |-> FALSE]
    ELSE IF i = failAt THEN [dir |-> d, err |-> TRUE]
    ELSE removeFrom(Remove(d, files[i]), files, i + 1, failAt)

\* a removeGlob that stops after the first listed file
removeGlobFirstOnly(d, outdir, compiledName, ext, failAt) ==
    LET glob == Join(outdir, filePrefix(compiledName) \o <<"*">> \o ext)
        files == Glob(d, glob)
    IN  removeFrom(d, IF files = <<>> THEN files ELSE <<files[1]>>, 1, failAt)

\* a removeGlob whose loop stops one file short of the end of the listing
removeGlobAllButLast(d, outdir, compiledName, ext, failAt) ==
    LET glob == Join(outdir, filePrefix(compiledName) \o <<"*">> \o ext)
        files == Glob(d, glob)
    IN  removeFrom(d, IF files = <<>> THEN files ELSE SubSeq(files, 1, Len(files) - 1),
                   1, failAt)

removeGlob(d, outdir, compiledName, ext, failAt) ==
    LET glob == Join(outdir, filePrefix(compiledName) \o <<"*">> \o ext)
        files == Glob(d, glob)
    IN  removeFrom(d, files, 1, failAt)

\* an outPath that fingerprints the logical name instead of the content
outPathOfName(outdir, compiledName, buf, ext) ==
    Join(outdir, filePrefix(compiledName) \o hash(<<>>) \o ext)

outPath(outdir, compiledName, buf, ext) ==
    Join(outdir, filePrefix(compiledName) \o hash(buf) \o ext)

(***************************************************************************)
(* ioutil.WriteFile: open with O_CREATE|O_TRUNC, write, close.  w is the   *)
(* environment's input: "ok"; "open" (the open fails, nothing changes);    *)
(* "short" (the file is created and truncated, w.n bytes reach it, and the *)
(* write or the close reports the error).                                  *)
(***************************************************************************)
WriteFile(d, path, data, w) ==
    IF DirOf(path) # outDir \/ w.kind = "open" THEN [dir |-> d, err |-> w.kind # "ok"]
    ELSE LET written == IF w.kind = "ok" THEN data ELSE SubSeq(data, 1, w.n)
         IN  [dir |-> Remove(d, path) \cup {[name |-> BaseOf(path), data |-> written]},
              err |-> w.kind # "ok"]

\* a compile that cleans the directory before it reads the sources
compileCleanFirst(d, outdir, compiledName, ext, paths, env) ==
    LET c == combine(paths)
        r == removeGlob(d, outdir, compiledName, ext, env.failAt)
        min == c.buf
        dst == outPath(outdir, compiledName, min, ext)
        w == WriteFile(r.dir, dst, min, env.w)
    IN  IF r.err THEN [dir |-> r.dir, err |-> ErrRemove, dst |-> <<>>]
        ELSE IF c.err THEN [dir |-> r.dir, err |-> ErrRead, dst |-> <<>>]
        ELSE IF w.err THEN [dir |-> w.dir, err |-> ErrWrite, dst |-> dst]
        ELSE [dir |-> w.dir, err |-> ErrNone, dst |-> dst]

\* a compile that looks at removeGlob's error only after it has written
compileWriteThenReport(d, outdir, compiledName, ext, paths, env) ==
    LET c == combine(paths)
        r == removeGlob(d, outdir, compiledName, ext, env.failAt)
        min == c.buf
        dst == outPath(outdir, compiledName, min, ext)
        w == WriteFile(r.dir, dst, min, env.w)
    IN  IF c.err THEN [dir |-> d, err |-> ErrRead, dst |-> <<>>]
        ELSE IF r.err THEN [dir |-> w.dir, err |-> ErrRemove, dst |-> <<>>]
        ELSE IF w.err THEN [dir |-> w.dir, err |-> ErrWrite, dst |-> dst]
        ELSE [dir |-> w.dir, err |-> ErrNone, dst |-> dst]

\* env = [failAt, w]: the environment's inputs to removeGlob and WriteFile
compile(d, outdir, compiledName, ext, paths, env) ==
    LET c == combine(paths)
        r == removeGlob(d, outdir, compiledName, ext, env.failAt)
        min == c.buf
        dst == outPath(outdir, compiledName, min, ext)
        w == WriteFile(r.dir, dst, min, env.w)
    IN  IF c.err THEN [dir |-> d, err |-> ErrRead, dst |-> <<>>]
        ELSE IF r.err THEN [dir |-> r.dir, err |-> ErrRemove, dst |-> <<>>]
        ELSE IF w.err THEN [dir |-> w.dir, err |-> ErrWrite, dst |-> dst]
        ELSE [dir |-> w.dir, err |-> ErrNone, dst |-> dst]

CSSCompile(d, outdir, compiledName, paths, env) ==
    compile(d, outdir, compiledName, MinCss, paths, env)

JSCompile(d, outdir, compiledName, paths, env) ==
    compile(d, outdir, compiledName, MinJs, paths, env)

ImgCompile(d, outdir, compiledName, ext, path, env) ==
    compile(d, outdir, compiledName, ext, <<path>>, env)

\* os.ReadFile of a path of the output directory; readOk is the environment's
\* input (FALSE: the read fails)
ReadFile(d, file, readOk) ==
    IF readOk /\ Exists(d, file)
    THEN [data |-> (CHOOSE g \in d : Join(outDir, g.name) = file).data, err |-> FALSE]
    ELSE [data |-> <<>>, err |-> TRUE]

Css == <<"c", "s", "s">>
Js == <<"j", "s">>

inline(d, path, compiledName, ext, readOk) ==
    LET found == findFile(d, path, compiledName, ext, FALSE)
        bytes == ReadFile(d, found.path, readOk)
    IN  IF found.err # ErrNone THEN [html |-> <<>>, err |-> found.err]
        ELSE IF bytes.err THEN [html |-> <<>>, err |-> ErrRead]
        ELSE IF HasSuffix(ext, Css)
        THEN [html |-> Sprintf(cssInlineTemplate, bytes.data), err |-> ErrNone]
        ELSE IF HasSuffix(ext, Js)
        THEN [html |-> Sprintf(jsInlineTemplate, bytes.data), err |-> ErrNone]
        ELSE [html |-> <<>>, err |-> ErrNoTemplate]

CSSInline(d, path, compiledName, readOk) == inline(d, path, compiledName, MinCss, readOk)

JSInline(d, path, compiledName, readOk) == inline(d, path, compiledName, MinJs, readOk)

\* a tag that falls through to the script template for any other extension
tagFallingThrough(d, path, compiledName, ext) ==
    LET found == findFile(d, path, compiledName, ext, TRUE)
    IN  IF found.err # ErrNone THEN [html |-> <<>>, err |-> found.err]
        ELSE IF HasSuffix(ext, Css)
        THEN [html |-> Sprintf(cssTagTemplate, found.path), err |-> ErrNone]
        ELSE [html |-> Sprintf(jsTagTemplate, found.path), err |-> ErrNone]

tag(d, path, compiledName, ext) ==
    LET found == findFile(d, path, compiledName, ext, TRUE)
    IN  IF found.err # ErrNone THEN [html |-> <<>>, err |-> found.err]
        ELSE IF HasSuffix(ext, Css)
        THEN [html |-> Sprintf(cssTagTemplate, found.path), err |-> ErrNone]
        ELSE IF HasSuffix(ext, Js)
        THEN [html |-> Sprintf(jsTagTemplate, found.path), err |-> ErrNone]
        ELSE [html |-> <<>>, err |-> ErrNoTemplate]

CSSTag(d, path, compiledName) == tag(d, path, compiledName, MinCss)

JSTag(d, path, compiledName) == tag(d, path, compiledName, MinJs)

ImgPath(d, path, compiledName, ext) == findFile(d, path, compiledName, ext, TRUE)

(***************************************************************************)
(* Inputs of the calls.                                                    *)
(***************************************************************************)
NameA == <<"a">>
NameAB == <<"a", "-", "b">>
Names == {NameA, NameAB}

\* a path that cannot be read
Unreadable == [ok |-> FALSE, data |-> <<>>]

Readable(data) == [ok |-> TRUE, data |-> data]

\* the source paths of the sequential and concurrent specifications
Sources == {Readable(<<"x">>), Unreadable}

SourceLists == SeqsUpTo(Sources, MaxFiles)

WriteOk == [kind |-> "ok", n |-> 0]

GlobOf(compiledName, ext) == Join(outDir, filePrefix(compiledName) \o <<"*">> \o ext)

\* the outcomes the environment can give one compile call: a failing
\* os.Remove at any listed file, or any outcome of the final write
Envs(d, compiledName, ext, paths) ==
    LET c == combine(paths)
        n == Len(Glob(d, GlobOf(compiledName, ext)))
    IN  IF c.err THEN {[failAt |-> 0, w |-> WriteOk]}
        ELSE {[failAt |-> k, w |-> WriteOk] : k \in 1..n}
             \cup {[failAt |-> 0, w |-> w] :
                     w \in {WriteOk, [kind |-> "open", n |-> 0]}
                           \cup {[kind |-> "short", n |-> k] : k \in 0..Len(c.buf)}}

\* entries the output directory may hold before the first call: earlier
\* outputs of both names
Entry(compiledName, buf, ext) ==
    [name |-> BaseOf(outPath(outDir, compiledName, buf, ext)), data |-> buf]

SeedFiles ==
    { Entry(NameA, <<"x", NL, NL>>, MinCss),
      Entry(NameA, <<NL, NL>>, MinCss),
      Entry(NameAB, <<"x", NL, NL>>, MinCss) }

Idle == [op |-> "idle"]
NoProcs == <<>>
NoPure == [done |-> FALSE]

(***************************************************************************)
(* Sequential compiles (single writer).  call records the last call: its   *)
(* arguments, the directory before it (pre) and its result.                *)
(***************************************************************************)
Init ==
    /\ dir \in SUBSET SeedFiles
    /\ call = Idle
    /\ ncalls = 0
    /\ procs = NoProcs
    /\ pure = NoPure

Returned(compiledName, ext, paths, res) ==
    /\ dir' = res.dir
    /\ call' = [op |-> "compile", name |-> compiledName, ext |-> ext, paths |-> paths,
                pre |-> dir, err |-> res.err, dst |-> res.dst]
    /\ ncalls' = ncalls + 1
    /\ UNCHANGED <<procs, pure>>

CSSCompileCall ==
    /\ ncalls < MaxCompiles
    /\ \E compiledName \in Names, paths \in SourceLists :
         \E env \in Envs(dir, compiledName, MinCss, paths) :
            Returned(compiledName, MinCss, paths,
                     CSSCompile(dir, outDir, compiledName, paths, env))

JSCompileCall ==
    /\ ncalls < MaxCompiles
    /\ \E compiledName \in Names, paths \in SourceLists :
         \E env \in Envs(dir, compiledName, MinJs, paths) :
            Returned(compiledName, MinJs, paths,
                     JSCompile(dir, outDir, compiledName, paths, env))

ImgCompileCall ==
    /\ ncalls < MaxCompiles
    /\ \E compiledName \in Names, path \in Sources :
         \E env \in Envs(dir, compiledName, Png, <<path>>) :
            Returned(compiledName, Png, <<path>>,
                     ImgCompile(dir, outDir, compiledName, Png, path, env))

Next == CSSCompileCall \/ JSCompileCall \/ ImgCompileCall

Spec == Init /\ [][Next]_vars

(***************************************************************************)
(* What the claims speak of, stated on the names themselves.               *)
(***************************************************************************)
\* name has the form __<compiledName>-<anything><ext>
IsOutputName(name, compiledName, ext) ==
    /\ Len(name) >= Len(filePrefix(compiledName)) + Len(ext)
    /\ HasPrefix(name, filePrefix(compiledName))
    /\ HasSuffix(name, ext)
    /\ \A i \in 1..Len(name) : name[i] # "/"

Matching(d, compiledName, ext) == {f \in d : IsOutputName(f.name, compiledName, ext)}

IsHex(h) == \A i \in 1..Len(h) : \E k \in 1..Len(HexChars) : HexChars[k] = h[i]

\* name is exactly __<compiledName>-<digest><ext>: a file compiled for compiledName
IsCompiledFor(name, compiledName, ext) ==
    /\ Len(name) = Len(filePrefix(compiledName)) + HashHexLen + Len(ext)
    /\ HasPrefix(name, filePrefix(compiledName))
    /\ HasSuffix(name, ext)
    /\ IsHex(SubSeq(name, Len(filePrefix(compiledName)) + 1, Len(name) - Len(ext)))

IsPrefixOf(p, s) == HasPrefix(s, p)

AllReadable(paths) == \A i \in 1..Len(paths) : paths[i].ok

\* the buffer of the call the record describes and the name of its output
BufOf(c) == combine(c.paths).buf
DstName(c) == filePrefix(c.name) \o hash(BufOf(c)) \o c.ext

IsCompile == call.op = "compile"

(***************************************************************************)
(* C1: after every compile that returns success, whatever the directory    *)
(* held before, exactly one entry matches __<name>-*<ext>: the file named  *)
(* by the digest of this call's buffer, holding that buffer; every entry   *)
(* that matched before under another name is gone.                         *)
(***************************************************************************)
CompileLeavesExactlyOne ==
    (IsCompile /\ call.err = ErrNone) =>
        /\ Matching(dir, call.name, call.ext) = {[name |-> DstName(call), data |-> BufOf(call)]}
        /\ call.dst = Join(outDir, DstName(call))
        /\ \A f \in Matching(call.pre, call.name, call.ext) :
              f.name # DstName(call) => ~Exists(dir, Join(outDir, f.name))

\* a successful compile that found two stale outputs under other names
CompileReplacedStaleFiles ==
    /\ IsCompile
    /\ call.err = ErrNone
    /\ Cardinality({f \in Matching(call.pre, call.name, call.ext) :
                       f.name # DstName(call)}) >= 2

(***************************************************************************)
(* C3: when the read of any source path fails, compile returns the read    *)
(* error and the directory is as it was before the call, wherever the      *)
(* unreadable path stands in the list.                                     *)
(***************************************************************************)
ReadFailureLeavesDirectory ==
    (IsCompile /\ ~AllReadable(call.paths)) =>
        /\ call.err = ErrRead
        /\ dir = call.pre

\* a read failure at the second path, with stale outputs in the directory
ReadFailedAfterFirstPath ==
    /\ IsCompile
    /\ call.err = ErrRead
    /\ Len(call.paths) = 2
    /\ call.paths[1].ok
    /\ ~call.paths[2].ok
    /\ Matching(call.pre, call.name, call.ext) # {}

(***************************************************************************)
(* C4 as claimed: when the final write fails, no entry matching            *)
(* __<name>-*<ext> is left and findFile reports that no file was found;    *)
(* when a deletion fails, nothing new has been written.                    *)
(***************************************************************************)
WriteFailureLeavesNoFile ==
    /\ (IsCompile /\ call.err = ErrWrite) =>
          /\ Matching(dir, call.name, call.ext) = {}
          /\ findFile(dir, outDir, call.name, call.ext, FALSE).err = ErrNoFile
    /\ (IsCompile /\ call.err = ErrRemove) => dir \subseteq call.pre

(***************************************************************************)
(* C4 as amended: when the final write fails, every entry that matched     *)
(* before under another name is gone and at most one entry matches: none,  *)
(* or the destination itself holding a prefix of the buffer (the file was  *)
(* created and the write or close failed); findFile then reports no file   *)
(* or returns the destination.  When a deletion fails, nothing new has     *)
(* been written and the file that could not be deleted is still there.     *)
(***************************************************************************)
WriteFailureLeavesAtMostDestination ==
    /\ (IsCompile /\ call.err = ErrWrite) =>
          /\ \A f \in Matching(call.pre, call.name, call.ext) :
                f.name # DstName(call) => ~Exists(dir, Join(outDir, f.name))
          /\ \A f \in Matching(dir, call.name, call.ext) :
                f.name = DstName(call) /\ IsPrefixOf(f.data, BufOf(call))
          /\ Cardinality(Matching(dir, call.name, call.ext)) <= 1
          /\ LET found == findFile(dir, outDir, call.name, call.ext, FALSE)
             IN  IF Matching(dir, call.name, call.ext) = {}
                 THEN found.err = ErrNoFile
                 ELSE found.err = ErrNone /\ found.path = call.dst
    /\ (IsCompile /\ call.err = ErrRemove) =>
          /\ dir \subseteq call.pre
          /\ Matching(dir, call.name, call.ext) # {}

\* a write that failed after stale outputs were deleted and left a truncated
\* destination behind
WriteFailedAfterDelete ==
    /\ IsCompile
    /\ call.err = ErrWrite
    /\ \E f \in Matching(call.pre, call.name, call.ext) : f.name # DstName(call)
    /\ \E f \in dir : f.name = DstName(call) /\ f.data # BufOf(call)

(***************************************************************************)
(* C10: a compile of one logical name leaves the files compiled for every  *)
(* other logical name (same extension) in place, and findFile for the      *)
(* other name answers after the call what it answered before.              *)
(***************************************************************************)
OtherNamesUntouched ==
    IsCompile =>
        \A other \in Names \ {call.name} :
            /\ \A f \in call.pre : IsCompiledFor(f.name, other, call.ext) => f \in dir
            /\ findFile(dir, outDir, other, call.ext, TRUE)
                   = findFile(call.pre, outDir, other, call.ext, TRUE)

(***************************************************************************)
(* The same compile twice: the arguments are drawn at the start (call      *)
(* holds them), the first call runs on the seeded directory and the second *)
(* on what the first left.  first records the first call's result.         *)
(***************************************************************************)
Args ==
    {[entry |-> e, name |-> n, ext |-> IF e = "css" THEN MinCss ELSE MinJs, paths |-> l] :
        e \in {"css", "js"}, n \in Names, l \in SourceLists}
    \cup {[entry |-> "img", name |-> n, ext |-> Png, paths |-> <<p>>] :
            n \in Names, p \in Sources}

EntryPoint(d, a, env) ==
    IF a.entry = "css" THEN CSSCompile(d, outDir, a.name, a.paths, env)
    ELSE IF a.entry = "js" THEN JSCompile(d, outDir, a.name, a.paths, env)
    ELSE ImgCompile(d, outDir, a.name, a.ext, a.paths[1], env)

InitTwice ==
    /\ dir \in SUBSET SeedFiles
    /\ call \in {[op |-> "args", args |-> a] : a \in Args}
    /\ ncalls = 0
    /\ procs = NoProcs
    /\ pure = NoPure

FirstCompile ==
    /\ ncalls = 0
    /\ \E env \in Envs(dir, call.args.name, call.args.ext, call.args.paths) :
         LET res == EntryPoint(dir, call.args, env)
         IN  /\ dir' = res.dir
             /\ call' = [op |-> "compile", args |-> call.args,
                         name |-> call.args.name, ext |-> call.args.ext,
                         paths |-> call.args.paths,
                         pre |-> dir, err |-> res.err, dst |-> res.dst]
    /\ ncalls' = 1
    /\ UNCHANGED <<procs, pure>>

SecondCompile ==
    /\ ncalls = 1
    /\ \E env \in Envs(dir, call.args.name, call.args.ext, call.args.paths) :
         LET res == EntryPoint(dir, call.args, env)
         IN  /\ dir' = res.dir
             /\ call' = [op |-> "compile", args |-> call.args,
                         name |-> call.args.name, ext |-> call.args.ext,
                         paths |-> call.args.paths,
                         pre |-> dir, err |-> res.err, dst |-> res.dst,
                         first |-> [pre |-> call.pre, err |-> call.err, dst |-> call.dst]]
    /\ ncalls' = 2
    /\ UNCHANGED <<procs, pure>>

NextTwice == FirstCompile \/ SecondCompile

SpecTwice == InitTwice /\ [][NextTwice]_vars

BothSucceeded == ncalls = 2 /\ call.err = ErrNone /\ call.first.err = ErrNone

(***************************************************************************)
(* C8: two compiles with the same directory, name, extension and sources   *)
(* that both succeed give the same output filename, and the second leaves  *)
(* the matching entries as the first left them: the single file of that    *)
(* name holding the buffer.                                                *)
(***************************************************************************)
SecondCompileChangesNothing ==
    BothSucceeded =>
        /\ call.dst = call.first.dst
        /\ Matching(dir, call.name, call.ext) = Matching(call.pre, call.name, call.ext)
        /\ Matching(dir, call.name, call.ext)
              = {[name |-> DstName(call), data |-> BufOf(call)]}

\* both calls succeeded, the first one on a directory holding stale outputs
CompiledTwice ==
    /\ BothSucceeded
    /\ Cardinality({f \in Matching(call.first.pre, call.name, call.ext) :
                       f.name # DstName(call)}) >= 2

(***************************************************************************)
(* Lookups and renders on any directory contents.                          *)
(***************************************************************************)
Exts == {MinCss, MinJs, Png}

ResolveSeeds ==
    SeedFiles \cup { Entry(NameA, <<"x", NL, NL>>, MinJs),
                     Entry(NameA, <<"x", NL, NL>>, Png),
                     Entry(NameA, <<NL, NL>>, Png) }

InitResolve ==
    /\ dir \in SUBSET ResolveSeeds
    /\ call = Idle
    /\ ncalls = 0
    /\ procs = NoProcs
    /\ pure = NoPure

Looked(op, compiledName, ext, abs, res) ==
    /\ call' = [op |-> op, name |-> compiledName, ext |-> ext, abs |-> abs, res |-> res]
    /\ UNCHANGED <<dir, ncalls, procs, pure>>

Rendered(op, compiledName, ext, readOk, res) ==
    /\ call' = [op |-> op, name |-> compiledName, ext |-> ext, readOk |-> readOk,
                res |-> res]
    /\ UNCHANGED <<dir, ncalls, procs, pure>>

FindFileCall ==
    \E compiledName \in Names, ext \in Exts, abs \in BOOLEAN :
        Looked("findFile", compiledName, ext, abs,
               findFile(dir, outDir, compiledName, ext, abs))

ImgPathCall ==
    \E compiledName \in Names, ext \in Exts :
        Looked("findFile", compiledName, ext, TRUE, ImgPath(dir, outDir, compiledName, ext))

TagCall ==
    \E compiledName \in Names, ext \in Exts :
        Rendered("tag", compiledName, ext, TRUE, tag(dir, outDir, compiledName, ext))

CSSTagCall ==
    \E compiledName \in Names :
        Rendered("tag", compiledName, MinCss, TRUE, CSSTag(dir, outDir, compiledName))

JSTagCall ==
    \E compiledName \in Names :
        Rendered("tag", compiledName, MinJs, TRUE, JSTag(dir, outDir, compiledName))

InlineCall ==
    \E compiledName \in Names, ext \in Exts, readOk \in BOOLEAN :
        Rendered("inline", compiledName, ext, readOk,
                 inline(dir, outDir, compiledName, ext, readOk))

CSSInlineCall ==
    \E compiledName \in Names, readOk \in BOOLEAN :
        Rendered("inline", compiledName, MinCss, readOk,
                 CSSInline(dir, outDir, compiledName, readOk))

JSInlineCall ==
    \E compiledName \in Names, readOk \in BOOLEAN :
        Rendered("inline", compiledName, MinJs, readOk,
                 JSInline(dir, outDir, compiledName, readOk))

NextResolve ==
    \/ FindFileCall
    \/ ImgPathCall
    \/ TagCall
    \/ CSSTagCall
    \/ JSTagCall
    \/ InlineCall
    \/ CSSInlineCall
    \/ JSInlineCall

SpecResolve == InitResolve /\ [][NextResolve]_vars

Candidates == Matching(dir, call.name, call.ext)

(***************************************************************************)
(* C2: findFile returns a path exactly when one entry matches              *)
(* __<name>-*<ext>, and then the path of that entry (rooted at "/" when an *)
(* absolute path is asked for); with no match it reports that no file was  *)
(* found, with several that more than one was found, and returns no path.  *)
(***************************************************************************)
FindFileReturnsTheOnlyMatch ==
    call.op = "findFile" =>
        /\ call.res.err = ErrNone <=> Cardinality(Candidates) = 1
        /\ Cardinality(Candidates) = 1 =>
              \E f \in Candidates :
                  call.res.path = (IF call.abs THEN <<"/">> ELSE <<>>)
                                      \o outDir \o <<"/">> \o f.name
        /\ Cardinality(Candidates) = 0 => call.res = [path |-> <<>>, err |-> ErrNoFile]
        /\ Cardinality(Candidates) > 1 => call.res = [path |-> <<>>, err |-> ErrMany]

\* a lookup that found two candidates
FindFileSawTwoCandidates ==
    /\ call.op = "findFile"
    /\ Cardinality(Candidates) = 2
    /\ call.res.err = ErrMany

Supported(ext) == HasSuffix(ext, Css) \/ HasSuffix(ext, Js)

IsRender == call.op \in {"tag", "inline"}

(***************************************************************************)
(* C9 as claimed: whatever the directory holds, a tag or inline render for *)
(* an extension that ends neither in css nor in js fails with the          *)
(* no-template error and returns no markup.                                *)
(***************************************************************************)
UnsupportedExtFailsWithNoTemplate ==
    (IsRender /\ ~Supported(call.ext)) =>
        call.res = [html |-> <<>>, err |-> ErrNoTemplate]

(***************************************************************************)
(* C9 as amended: such a render never returns markup and always fails; it  *)
(* fails with the no-template error when exactly one entry matches (and,   *)
(* for inline, its read succeeds), and otherwise with the error of the     *)
(* lookup (no file, more than one file) or of the read, which come first.  *)
(***************************************************************************)
UnsupportedExtNeverRenders ==
    (IsRender /\ ~Supported(call.ext)) =>
        /\ call.res.html = <<>>
        /\ call.res.err # ErrNone
        /\ Cardinality(Candidates) = 0 => call.res.err = ErrNoFile
        /\ Cardinality(Candidates) > 1 => call.res.err = ErrMany
        /\ (Cardinality(Candidates) = 1 /\ call.readOk) => call.res.err = ErrNoTemplate
        /\ (Cardinality(Candidates) = 1 /\ ~call.readOk) => call.res.err = ErrRead

\* a tag render for .png with exactly one .png output in the directory
TagForPngRefused ==
    /\ call.op = "tag"
    /\ call.ext = Png
    /\ Cardinality(Candidates) = 1
    /\ call.res.err = ErrNoTemplate

(***************************************************************************)
(* combine and outPath as functions: two source lists are drawn, then      *)
(* combined and named.                                                     *)
(***************************************************************************)
PureLists == SeqsUpTo({Readable(data) : data \in SeqsUpTo(Bytes, PureMaxLen)}, PureMaxFiles)

InitPure ==
    /\ dir = {}
    /\ call = Idle
    /\ ncalls = 0
    /\ procs = NoProcs
    /\ pure \in {[done |-> FALSE, a |-> la, b |-> lb] : la \in PureLists, lb \in PureLists}

Named(paths) ==
    LET c == combine(paths)
    IN  [buf |-> c.buf, path |-> outPath(outDir, NameA, c.buf, MinCss)]

CombineAndName ==
    /\ ~pure.done
    /\ pure' = [done |-> TRUE, a |-> pure.a, b |-> pure.b,
                outA |-> Named(pure.a), outB |-> Named(pure.b)]
    /\ UNCHANGED <<dir, call, ncalls, procs>>

NextPure == CombineAndName

SpecPure == InitPure /\ [][NextPure]_vars

\* the sources joined with the separator between consecutive files only
RECURSIVE Joined(_)
Joined(paths) ==
    IF Len(paths) = 0 THEN <<>>
    ELSE IF Len(paths) = 1 THEN paths[1].data
    ELSE paths[1].data \o <<NL, NL>> \o Joined(Tail(paths))

\* where the i-th source starts in a buffer in which every source is followed
\* by two newlines
RECURSIVE Offset(_, _)
Offset(paths, i) ==
    IF i = 1 THEN 0 ELSE Offset(paths, i - 1) + Len(paths[i - 1].data) + 2

(***************************************************************************)
(* C6 as claimed: for a non-empty list the buffer is the sources in order  *)
(* with two newlines between consecutive files.                            *)
(***************************************************************************)
BufferIsSourcesJoined ==
    (pure.done /\ Len(pure.a) > 0) => pure.outA.buf = Joined(pure.a)

(***************************************************************************)
(* C6 as amended: the buffer is the sources in order, each one followed by *)
(* two newlines, the last one included.                                    *)
(***************************************************************************)
BufferIsSourcesTerminated ==
    (pure.done /\ Len(pure.a) > 0) =>
        /\ Len(pure.outA.buf) = Offset(pure.a, Len(pure.a) + 1)
        /\ \A i \in 1..Len(pure.a) :
              LET from == Offset(pure.a, i)
                  n == Len(pure.a[i].data)
              IN  /\ SubSeq(pure.outA.buf, from + 1, from + n) = pure.a[i].data
                  /\ SubSeq(pure.outA.buf, from + n + 1, from + n + 2) = <<NL, NL>>

\* two non-empty sources combined
CombinedTwoSources ==
    /\ pure.done
    /\ Len(pure.a) = 2
    /\ pure.a[1].data # <<>>
    /\ pure.a[2].data # <<>>

HasNewline(paths) == \E i \in 1..Len(paths) : \E k \in 1..Len(paths[i].data) : paths[i].data[k] = NL

(***************************************************************************)
(* C7 as claimed: two source lists that differ (in the number of files or  *)
(* in the bytes of a file) get different output filenames.                 *)
(***************************************************************************)
DifferentSourcesDifferentNames ==
    (pure.done /\ pure.a # pure.b) => pure.outA.path # pure.outB.path

(***************************************************************************)
(* C7 as amended: two source lists get different output filenames whenever *)
(* their combined buffers differ, and so whenever the lists differ and no  *)
(* file holds a newline; lists that combine to the same buffer get the     *)
(* same filename.                                                          *)
(***************************************************************************)
DifferentBuffersDifferentNames ==
    pure.done =>
        /\ pure.outA.buf # pure.outB.buf => pure.outA.path # pure.outB.path
        /\ (pure.a # pure.b /\ ~HasNewline(pure.a) /\ ~HasNewline(pure.b)) =>
              pure.outA.path # pure.outB.path
        /\ pure.outA.buf = pure.outB.buf => pure.outA.path = pure.outB.path

\* lists of different lengths that got different names
NamedTwoDifferentLists ==
    /\ pure.done
    /\ Len(pure.a) # Len(pure.b)
    /\ Len(pure.a) > 0
    /\ Len(pure.b) > 0
    /\ pure.outA.path # pure.outB.path

(***************************************************************************)
(* Two compile calls for the same directory, name and extension running    *)
(* concurrently.  Each call is a process; its steps are the ones that      *)
(* touch the directory: the glob listing, each os.Remove, the write.       *)
(* os.Remove fails on a file the other call has already removed.  The      *)
(* directory starts as a single writer leaves it: at most one entry        *)
(* matches.                                                                *)
(***************************************************************************)
Procs == {1, 2}

ConcName == NameA
ConcExt == MinCss

InitConc ==
    /\ dir \in {d \in SUBSET SeedFiles : Cardinality(Matching(d, ConcName, ConcExt)) <= 1}
    /\ call = Idle
    /\ ncalls = 0
    /\ procs \in [Procs -> {[pc |-> "combine", paths |-> l, buf |-> <<>>, files |-> <<>>,
                             i |-> 0, err |-> ErrNone] : l \in SourceLists}]
    /\ pure = NoPure

\* lines 99-102: the sources are read and concatenated
CombineStep(p) ==
    /\ procs[p].pc = "combine"
    /\ LET c == combine(procs[p].paths)
       IN  procs' = [procs EXCEPT ![p] =
                        IF c.err THEN [@ EXCEPT !.pc = "done", !.err = ErrRead]
                        ELSE [@ EXCEPT !.pc = "glob", !.buf = c.buf]]
    /\ UNCHANGED <<dir, call, ncalls, pure>>

\* lines 77-78: removeGlob lists the matching files
GlobStep(p) ==
    /\ procs[p].pc = "glob"
    /\ procs' = [procs EXCEPT ![p] =
                    [@ EXCEPT !.pc = "remove", !.i = 1,
                              !.files = Glob(dir, GlobOf(ConcName, ConcExt))]]
    /\ UNCHANGED <<dir, call, ncalls, pure>>

\* lines 82-85: one os.Remove of the listing
RemoveStep(p) ==
    /\ procs[p].pc = "remove"
    /\ procs[p].i <= Len(procs[p].files)
    /\ LET f == procs[p].files[procs[p].i]
       IN  IF Exists(dir, f)
           THEN /\ dir' = Remove(dir, f)
                /\ procs' = [procs EXCEPT ![p] = [@ EXCEPT !.i = @ + 1]]
           ELSE /\ dir' = dir
                /\ procs' = [procs EXCEPT ![p] = [@ EXCEPT !.pc = "done", !.err = ErrRemove]]
    /\ UNCHANGED <<call, ncalls, pure>>

\* lines 111-122: the listing is exhausted, the output is named and written
WriteStep(p) ==
    /\ procs[p].pc = "remove"
    /\ procs[p].i > Len(procs[p].files)
    /\ LET dst == outPath(outDir, ConcName, procs[p].buf, ConcExt)
       IN  dir' = WriteFile(dir, dst, procs[p].buf, WriteOk).dir
    /\ procs' = [procs EXCEPT ![p] = [@ EXCEPT !.pc = "done"]]
    /\ UNCHANGED <<call, ncalls, pure>>

Combining == \E p \in Procs : CombineStep(p)
Listing == \E p \in Procs : GlobStep(p)
Removing == \E p \in Procs : RemoveStep(p)
Writing == \E p \in Procs : WriteStep(p)

NextConc == Combining \/ Listing \/ Removing \/ Writing

SpecConc == InitConc /\ [][NextConc]_vars

BothReturned == \A p \in Procs : procs[p].pc = "done"

(***************************************************************************)
(* C5: once both concurrent compile calls have returned, at most one entry *)
(* matching __<name>-*<ext> remains in the directory.                      *)
(***************************************************************************)
TwoFilesOnlyTransient ==
    BothReturned => Cardinality(Matching(dir, ConcName, ConcExt)) <= 1

====
